---- MODULE Spec2Model ----
(***************************************************************************)
(* Model of the ticker aggregation endpoint (src/api/ticker.js): the       *)
(* request handler, its source adapters, the normalizer mapItem and the    *)
(* process-wide cache (lastGoodSnapshot, lastGoodAt, lastGoodById).        *)
(*                                                                         *)
(* Conventions.  JavaScript null/undefined numbers are the integer null.   *)
(* Prices are integers.  Percentages are integers in units of 0.001 %      *)
(* (so 11110 is 11.11 %); floating-point error is not modelled.  An error  *)
(* string an adapter builds with errs.join(",") is the sequence of its     *)
(* tokens; meta.errors is a sequence of such strings.  Date.now() is the   *)
(* logical clock now; it advances once per synchronous run of the         *)
(* handler's tail, and every read in that run returns the same instant.    *)
(* meta.tookMs (a wall-clock duration) is not modelled.                    *)
(*                                                                         *)
(* Specifications.  Spec: one handler at a time.  SpecFair: Spec with the  *)
(* event loop's fairness.  SpecConcurrent: two handlers interleaved.       *)
(* SpecAdapters: the crypto task run to its end.  SpecNormalizer: mapItem  *)
(* called on its own with every raw quote of RawQuotes.                    *)
(***************************************************************************)
EXTENDS Integers, Sequences, FiniteSets, TLC

\* ------------------------------------------------------------------ bounds

\* Requests accepted over the life of the process.
MaxRequests == 2

\* ------------------------------------------------------- program constants

PER_SOURCE_TIMEOUT_MS == 3000
GLOBAL_DEADLINE_MS == 3500

\* JavaScript null / undefined in a numeric position.
null == -1000000

\* ------------------------------------------------------------ input domain

\* Request slots: handler invocations that may be in flight at once.
Slots == {1, 2}

\* Identifiers the model's callers ask for.  "nvda" is an identifier no
\* adapter serves (it fails the ticker pattern).
Ids == {"NVDA", "BTC", "BLUE", "^GSPC", "nvda"}

\* A segment of the items parameter that decodeURIComponent rejects.
Malformed == "%"

\* The items parameter after split(",") and trim: <<"">> is the missing or
\* empty parameter, "" an empty segment.
ItemLists ==
  { <<"">>, <<"", "">>, <<Malformed>>,
    <<"%5EGSPC">>, <<"^GSPC", "BLUE">>, <<"NVDA", "", "NVDA">>, <<"BTC", "nvda">> }

Requests ==
  [method : {"GET"}, items : ItemLists, debug : {FALSE}]
    \cup { [method |-> "OPTIONS", items |-> <<"">>, debug |-> FALSE],
           [method |-> "GET", items |-> <<"%5EGSPC">>, debug |-> TRUE],
           [method |-> "GET", items |-> <<"BTC", "nvda">>, debug |-> TRUE] }

\* The requests of the runs in which two handlers are in flight at once.
ConcurrentRequests ==
  [method : {"GET"}, items : { <<"%5EGSPC">>, <<"BLUE">> }, debug : {FALSE}]

\* Prices the upstream providers quote.
StockPrices == {0, 100}
StockPrevCloses == {90}
IndexPrices == {4000, 4100}
CryptoPrices == {60000}
CryptoChanges == {-5000}
FxPrices == {1200}
FxVariations == {1500}

\* ---------------------------------------------------------------- helpers

Range(s) == { s[i] : i \in 1..Len(s) }

\* ------------------------------------------------------------- raw quotes

\* merged[id] || {} : a record with every field undefined.
NoQuote ==
  [price |-> null, prevClose |-> null, changePct |-> null,
   changePct24h |-> null, source |-> ""]

Quote(price, prevClose, source) ==
  [NoQuote EXCEPT !.price = price, !.prevClose = prevClose, !.source = source]

\* -------------------------------------------------------------- normalizer

\* round(x, 2) of the rational n / d given in units of 0.001 %:
\* Math.round(x * 100) / 100, Math.round rounding halves towards +infinity.
Round2(n, d) == 10 * ((2 * n + 10 * d) \div (20 * d))

MetaTable ==
  [id \in {"BTC", "ETH", "BLUE", "^GSPC", "NVDA"} |->
     CASE id = "BTC"   -> [label |-> "Bitcoin",    kind |-> "crypto", currency |-> "USD"]
       [] id = "ETH"   -> [label |-> "Ethereum",   kind |-> "crypto", currency |-> "USD"]
       [] id = "BLUE"  -> [label |-> "Dolar Blue", kind |-> "fx_ars", currency |-> "ARS"]
       [] id = "^GSPC" -> [label |-> "S&P 500",    kind |-> "index",  currency |-> "USD"]
       [] id = "NVDA"  -> [label |-> "Nvidia",     kind |-> "stock",  currency |-> "USD"]]

MetaOf(id) ==
  IF id \in DOMAIN MetaTable THEN MetaTable[id]
  ELSE [label |-> id, kind |-> "stock", currency |-> "USD"]

\* Mutant of ChangeOf: changePct is tested before changePct24h.
ChangeOf_PctFirst(raw) ==
  IF raw.changePct # null THEN <<null, <<raw.changePct, 1>>>>
  ELSE IF raw.changePct24h # null THEN <<null, <<raw.changePct24h, 1>>>>
  ELSE IF raw.price # null /\ raw.prevClose # null /\ raw.prevClose > 0
       THEN <<raw.price - raw.prevClose,
              <<(raw.price - raw.prevClose) * 100000, raw.prevClose>>>>
  ELSE <<null, <<null, 1>>>>

\* The first if-chain of mapItem: <<changeAbs, changePct>> with changePct the
\* fraction <<numerator, denominator>> in units of 0.001 %.
ChangeOf(raw) ==
  IF raw.changePct24h # null THEN <<null, <<raw.changePct24h, 1>>>>
  ELSE IF raw.changePct # null THEN <<null, <<raw.changePct, 1>>>>
  ELSE IF raw.price # null /\ raw.prevClose # null /\ raw.prevClose > 0
       THEN <<raw.price - raw.prevClose,
              <<(raw.price - raw.prevClose) * 100000, raw.prevClose>>>>
  ELSE <<null, <<null, 1>>>>

DirectionOf(pct) ==
  IF pct[1] = null THEN "flat"
  ELSE IF pct[1] > 0 THEN "up"
  ELSE IF pct[1] < 0 THEN "down"
  ELSE "flat"

\* The backfill of changeAbs inside `if (changePct != null)`.
BackfillAbs(raw, changeAbs, pct) ==
  IF pct[1] # null /\ changeAbs = null /\ raw.prevClose # null
  THEN IF raw.price # null THEN raw.price - raw.prevClose ELSE null
  ELSE changeAbs

mapItem(id, raw) ==
  LET meta == MetaOf(id)
      ch   == ChangeOf(raw)
      pct  == ch[2]
  IN [id        |-> id,
      label     |-> meta.label,
      kind      |-> meta.kind,
      currency  |-> meta.currency,
      price     |-> raw.price,
      prevClose |-> raw.prevClose,
      source    |-> IF raw.source = "" THEN "unknown" ELSE raw.source,
      changeAbs |-> BackfillAbs(raw, ch[1], pct),
      changePct |-> IF pct[1] = null THEN null ELSE Round2(pct[1], pct[2]),
      direction |-> DirectionOf(pct)]

\* ------------------------------------------------------------- classifier

\* decodeURIComponent on a segment searchParams.get has already decoded once.
\* It throws URIError on Malformed.
decodeURIComponent(s) == IF s = "%5EGSPC" THEN "^GSPC" ELSE s

DecodeThrows(items) == Malformed \in Range(items)

\* raw.split(",").map(s => decodeURIComponent(s.trim())).filter(Boolean)
IdsOf(items) ==
  LET decoded == [i \in 1..Len(items) |-> decodeURIComponent(items[i])]
  IN SelectSeq(decoded, LAMBDA s : s # "")

\* The identifiers of the model that match /^[A-Z.]+$/.
TickerShaped == {"NVDA", "BTC", "BLUE"}

FixedIds == {"BTC", "ETH", "OFICIAL", "BLUE", "MEP", "^GSPC"}

wantStocks(ids) == SelectSeq(ids, LAMBDA s : s \in TickerShaped /\ s \notin FixedIds)
wantCrypto(ids) == SelectSeq(ids, LAMBDA s : s = "BTC" \/ s = "ETH")
wantFX(ids) == \E s \in Range(ids) : s = "OFICIAL" \/ s = "BLUE" \/ s = "MEP"
wantSPX(ids) == "^GSPC" \in Range(ids)

\* The adapters of the primary round, in launch order.
JobNames == <<"twelvedata", "crypto", "criptoya", "stooq">>

Launched(ids, j) ==
  CASE j = "twelvedata" -> wantStocks(ids) # << >>
    [] j = "crypto"     -> wantCrypto(ids) # << >>
    [] j = "criptoya"   -> wantFX(ids)
    [] j = "stooq"      -> wantSPX(ids)

\* ------------------------------------------------------------------- maps

\* {} : an object with no keys.
EmptyMap == [id \in {} |-> NoQuote]

\* Object.assign(target, src)
Assign(target, src) ==
  [id \in DOMAIN target \cup DOMAIN src |->
     IF id \in DOMAIN src THEN src[id] ELSE target[id]]

\* merged[id] || {}
Get(m, id) == IF id \in DOMAIN m THEN m[id] ELSE NoQuote

\* !merged[id]?.price
NoPrice(m, id) == Get(m, id).price = null \/ Get(m, id).price = 0

\* --------------------------------------------------------------- adapters

\* An adapter task: st is "none" (not launched), "pending" (call number
\* `call` in flight) or "settled" (data and errs are its result).
NoJob == [st |-> "none", call |-> 0, data |-> EmptyMap, errs |-> << >>]
Pending(call, data, errs) ==
  [st |-> "pending", call |-> call, data |-> data, errs |-> errs]
Settled(data, errs) ==
  [st |-> "settled", call |-> 0, data |-> data, errs |-> errs]

\* What one upstream call does: "ok" (a success status and a body), "http"
\* (a non-success status) or "ex" (fetch rejects: network error, or the
\* per-call timer of fetchWithTimeout aborting the call).
CallKinds == {"ok", "http", "ex"}

\* Only a call that returns a success status has a body to read.
BodiesOf(kind, bodies) == IF kind = "ok" THEN bodies ELSE {CHOOSE b \in bodies : TRUE}

\* Twelve Data.  body maps each symbol to what the batch answer holds for
\* it: nothing ("absent"), a status other than ok ("error"), or a quote.
TwelveQuotes ==
  [status : {"absent", "error"}, price : {null}, previous_close : {null}]
    \cup [status : {"ok"}, price : StockPrices, previous_close : StockPrevCloses]

TwelveBodies(symbols) == [Range(symbols) -> TwelveQuotes]

fetchTwelveData(symbols, kind, body) ==
  CASE kind = "http" -> Settled(EmptyMap, <<"twelve-http-500">>)
    [] kind = "ex"   -> Settled(EmptyMap, <<"twelve-ex-AbortError">>)
    [] kind = "ok"   ->
         Settled([sym \in {x \in Range(symbols) : body[x].status # "absent"} |->
                    IF body[sym].status = "ok"
                    THEN Quote(body[sym].price, body[sym].previous_close, "twelvedata")
                    ELSE NoQuote],
                 << >>)

\* The task as fetchTwelveData leaves it before its first await.
startTwelveData(tdToken) ==
  IF tdToken THEN Pending(1, EmptyMap, << >>)
  ELSE Settled(EmptyMap, <<"twelve-no-token-or-empty">>)

\* CoinGecko, then CoinCap for what is still missing.  body maps the assets
\* the provider's answer carries (whatever the call asked for) to their
\* price and 24 h change; usd is null when the answer has no numeric price.
CryptoIds == {"BTC", "ETH"}

CryptoBodies ==
  UNION { [S -> [usd : CryptoPrices \cup {null}, change : CryptoChanges]] :
            S \in SUBSET CryptoIds }

\* if (j.bitcoin) out["BTC"] = {...}; if (j.ethereum) out["ETH"] = {...}
CryptoQuotes(body, source) ==
  [id \in DOMAIN body |->
     [NoQuote EXCEPT !.price = body[id].usd, !.changePct24h = body[id].change,
                     !.source = source]]

\* The loop over CoinCap's data array: if (price != null) out[...] = {...}
CoinCapQuotes(body) ==
  CryptoQuotes([id \in { x \in DOMAIN body : body[x].usd # null } |-> body[id]],
               "coincap")

needFallback(ids, out) == SelectSeq(ids, LAMBDA id : id \notin DOMAIN out)

afterCoinGecko(ids, out, errs) ==
  IF needFallback(ids, out) # << >> THEN Pending(2, out, errs)
  ELSE Settled(out, errs)

fetchCryptoWithFallback(ids, job, kind, body) ==
  IF job.call = 1
  THEN CASE kind = "ok"   -> afterCoinGecko(ids, CryptoQuotes(body, "coingecko"), << >>)
         [] kind = "http" -> afterCoinGecko(ids, EmptyMap, <<"cg-http-429">>)
         [] kind = "ex"   -> afterCoinGecko(ids, EmptyMap, <<"cg-ex-AbortError">>)
  ELSE CASE kind = "ok" ->
              Settled(Assign(job.data, CoinCapQuotes(body)),
                      IF DOMAIN body = {} THEN Append(job.errs, "coincap-empty")
                      ELSE job.errs)
         [] kind = "http" -> Settled(job.data, Append(job.errs, "coincap-http-500"))
         [] kind = "ex"   -> Settled(job.data, Append(job.errs, "coincap-ex-AbortError"))

\* CriptoYa.  body maps the rates the answer carries to price and variation.
FxBodies ==
  UNION { [S -> [price : FxPrices, variation : FxVariations]] : S \in SUBSET {"BLUE"} }

fetchCriptoYa(kind, body) ==
  CASE kind = "http" -> Settled(EmptyMap, <<"cy-http-500">>)
    [] kind = "ex"   -> Settled(EmptyMap, <<"cy-ex-AbortError">>)
    [] kind = "ok"   ->
         Settled([id \in DOMAIN body |->
                    [NoQuote EXCEPT !.price = body[id].price,
                                    !.changePct = body[id].variation,
                                    !.source = "criptoya"]],
                 << >>)

\* Stooq: the (host, symbol) attempts, hosts outer, symbols inner.
hosts == <<"https://stooq.com", "https://stooq.pl">>
syms == <<"%5Espx", "%5Egspc", "spx">>
StooqAttempts == Len(hosts) * Len(syms)

\* The (host, symbol) pair of attempt number call.
StooqPair(call) ==
  <<hosts[((call - 1) \div Len(syms)) + 1], syms[((call - 1) % Len(syms)) + 1]>>

\* Mutant of fetchStooqSPXRobust: the adapter gives up after the first host.
fetchStooqSPXRobust_FirstHostOnly(job, kind, body) ==
  IF kind = "ok" /\ body # null
  THEN Settled([id \in {"^GSPC"} |-> Quote(body, null, "stooq")], << >>)
  ELSE IF job.call < Len(syms)
       THEN Pending(job.call + 1, EmptyMap, << >>)
       ELSE Settled(EmptyMap, <<"stooq-all-attempts-failed">>)

\* body is the close the first CSV line parses to, null when it is not a
\* finite number.
fetchStooqSPXRobust(job, kind, body) ==
  IF kind = "ok" /\ body # null
  THEN Settled([id \in {"^GSPC"} |-> Quote(body, null, "stooq")], << >>)
  ELSE IF job.call < StooqAttempts
       THEN Pending(job.call + 1, EmptyMap, << >>)
       ELSE Settled(EmptyMap, <<"stooq-all-attempts-failed">>)

\* Mutant of FinnhubCall: the call has no abort timer and the upstream
\* never answers, so the call never settles.
FinnhubCall_NeverSettles(fh, sym, kind, body) == fh

\* Finnhub: one call per symbol, all in flight at once.  body is the quote
\* (c null for a body without a numeric c).
FinnhubBodies ==
  [c : {null}, pc : {null}] \cup [c : StockPrices, pc : StockPrevCloses]

FinnhubCall(fh, sym, kind, body) ==
  CASE kind = "http" ->
         [fh EXCEPT !.pending = @ \ {sym}, !.errs = Append(@, "fh-http-" \o sym \o "-500")]
    [] kind = "ex" ->
         [fh EXCEPT !.pending = @ \ {sym},
                    !.errs = Append(@, "fh-ex-" \o sym \o "-AbortError")]
    [] kind = "ok" ->
         IF body.c # null
         THEN [fh EXCEPT !.pending = @ \ {sym},
                         !.out = Assign(@, [id \in {sym} |->
                                   Quote(body.c, body.pc, "finnhub")])]
         ELSE [fh EXCEPT !.pending = @ \ {sym},
                         !.errs = Append(@, "fh-empty-" \o sym)]

NoFinnhub == [wants |-> << >>, pending |-> {}, out |-> EmptyMap, errs |-> << >>]

\* The most calls of fetchWithTimeout a task of the primary round awaits
\* one after the other.
MaxCalls(j) ==
  CASE j = "twelvedata" -> 1
    [] j = "crypto"     -> 2
    [] j = "criptoya"   -> 1
    [] j = "stooq"      -> Len(hosts) * Len(syms)

\* The longest a task can take when every call runs into its abort timer.
WorstCaseMs(j) == MaxCalls(j) * PER_SOURCE_TIMEOUT_MS

\* ------------------------------------------------------------------ state

VARIABLES
  TD_TOKEN,          \* whether TWELVE_DATA_TOKEN is set
  FH_TOKEN,          \* whether FINNHUB_TOKEN is set
  lastGoodSnapshot,  \* the last payload cached, NoSnapshot for null
  lastGoodAt,        \* when it was cached
  lastGoodById,      \* id -> [price, prevClose, source, ts]
  now,               \* Date.now()
  accepted,          \* requests the process has accepted so far
  pc,                \* per slot: "idle", "race", "finnhub" or "done"
  request,           \* per slot: the request being handled
  job,               \* per slot: the primary-round adapter tasks
  merged,            \* per slot: merged, while fetchFinnhub is awaited
  errors,            \* per slot: errors, while fetchFinnhub is awaited
  fh,                \* per slot: the fetchFinnhub call in progress
  response,          \* per slot: what sendJson sent, NoResponse before
  sent,              \* per slot: how many times this handler called sendJson
  mapIn,             \* the arguments [id, raw] of a call of mapItem on its own
  mapOut             \* what that call returned, NoItem before it returns

cache == <<lastGoodSnapshot, lastGoodAt, lastGoodById>>
normalizer == <<mapIn, mapOut>>
env == <<TD_TOKEN, FH_TOKEN, normalizer>>
vars == <<TD_TOKEN, FH_TOKEN, lastGoodSnapshot, lastGoodAt, lastGoodById, now,
          accepted, pc, request, job, merged, errors, fh, response, sent,
          mapIn, mapOut>>

NoMeta ==
  [partial |-> FALSE, stale |-> FALSE, errors |-> << >>, servedFrom |-> "",
   snapshotAt |-> null, error |-> "", sources |-> << >>]

\* lastGoodSnapshot = null
NoSnapshot == [ok |-> FALSE, ts |-> null, items |-> << >>, meta |-> NoMeta]

NoResponse == [status |-> 0, body |-> [ok |-> FALSE]]

NoRequest == [method |-> "", items |-> << >>, debug |-> FALSE]

NoJobs == [j \in Range(JobNames) |-> NoJob]

\* No call of mapItem outside a handler.
NoItem == mapItem("", NoQuote)
NoCall == [id |-> "", raw |-> NoQuote]

\* The process after its module is loaded, but for the normalizer's call.
InitProcess ==
  /\ TD_TOKEN \in BOOLEAN
  /\ FH_TOKEN \in BOOLEAN
  /\ lastGoodSnapshot = NoSnapshot
  /\ lastGoodAt = 0
  /\ lastGoodById = [id \in {} |-> [price |-> null, prevClose |-> null,
                                    source |-> "", ts |-> 0]]
  /\ now = 0
  /\ accepted = 0
  /\ pc = [r \in Slots |-> "idle"]
  /\ request = [r \in Slots |-> NoRequest]
  /\ job = [r \in Slots |-> NoJobs]
  /\ merged = [r \in Slots |-> EmptyMap]
  /\ errors = [r \in Slots |-> << >>]
  /\ fh = [r \in Slots |-> NoFinnhub]
  /\ response = [r \in Slots |-> NoResponse]
  /\ sent = [r \in Slots |-> 0]

Init ==
  /\ InitProcess
  /\ mapIn = NoCall
  /\ mapOut = NoItem

\* ---------------------------------------------------------------- handler

\* sendJson(res, status, data), after which the handler returns: its locals
\* are dropped; a task still pending (abandoned at the deadline) runs on.
sendJson(r, status, data) ==
  /\ response' = [response EXCEPT ![r] = [status |-> status, body |-> data]]
  /\ sent' = [sent EXCEPT ![r] = (IF pc[r] \in {"idle", "done"} THEN 0 ELSE @) + 1]
  /\ pc' = [pc EXCEPT ![r] = "done"]
  /\ merged' = [merged EXCEPT ![r] = EmptyMap]
  /\ errors' = [errors EXCEPT ![r] = << >>]
  /\ fh' = [fh EXCEPT ![r] = NoFinnhub]
  /\ job' = [job EXCEPT ![r] =
              [j \in Range(JobNames) |-> IF @[j].st = "pending" THEN @[j] ELSE NoJob]]

\* The sources list of a debug response.
SourcesOf(ids, fhWants) ==
  (IF wantStocks(ids) # << >>
     THEN <<[name |-> "twelvedata", wants |-> wantStocks(ids)]>> ELSE << >>)
  \o (IF wantCrypto(ids) # << >>
     THEN <<[name |-> "coingecko/coinCap", wants |-> wantCrypto(ids)]>> ELSE << >>)
  \o (IF wantFX(ids)
     THEN <<[name |-> "criptoya", wants |-> <<"OFICIAL", "BLUE", "MEP">>]>> ELSE << >>)
  \o (IF wantSPX(ids)
     THEN <<[name |-> "stooq-robust", wants |-> <<"^GSPC">>]>> ELSE << >>)
  \o (IF fhWants # << >>
     THEN <<[name |-> "finnhub-fallback", wants |-> fhWants]>> ELSE << >>)

\* Mutant of CachedAfterServing: snap and its meta are the cached objects
\* themselves, so the stamp is written into the cache.
CachedAfterServing_Shared(snap) == snap

\* The cached snapshot after a response snap was built from it: snap is a
\* shallow copy ({ ...lastGoodSnapshot }) with a meta object of its own
\* ({ ...(snap.meta || {}) }), so stamping snap writes nothing to the cache.
CachedAfterServing(snap) == lastGoodSnapshot

\* Mutant of ServeOnError: the fault reaches the transport layer as a 500.
ServeOnError_Propagates(r, e) ==
  /\ sendJson(r, 500, [ok |-> FALSE, error |-> e])
  /\ UNCHANGED <<now, lastGoodSnapshot>>

\* Mutant of ServeOnError: the snapshot is not consulted.
ServeOnError_FreshOnly(r, e) ==
  /\ now' = now + 1
  /\ UNCHANGED lastGoodSnapshot
  /\ sendJson(r, 200,
       [ok |-> TRUE, ts |-> now', items |-> << >>,
        meta |-> [NoMeta EXCEPT !.partial = TRUE, !.stale = TRUE,
                                !.errors = <<<<e>>>>]])

\* The catch block of the handler: a fault e was thrown in the try block.
ServeOnError(r, e) ==
  IF lastGoodSnapshot # NoSnapshot
  THEN \E snap \in {[lastGoodSnapshot EXCEPT
                       !.meta = [@ EXCEPT !.servedFrom = "snapshot-on-error",
                                          !.error = e]]} :
         /\ sendJson(r, 200, snap)
         /\ lastGoodSnapshot' = CachedAfterServing(snap)
         /\ UNCHANGED now
  ELSE /\ now' = now + 1
       /\ UNCHANGED lastGoodSnapshot
       /\ sendJson(r, 200,
            [ok |-> TRUE, ts |-> now', items |-> << >>,
             meta |-> [NoMeta EXCEPT !.partial = TRUE, !.stale = TRUE,
                                     !.errors = <<<<e>>>>]])

\* Mutant of UsesLastGood: the memory is used only when nothing else in the
\* request has a price.
UsesLastGood_OnlyAlone(ids, m) ==
  /\ wantSPX(ids)
  /\ \A id \in Range(ids) : Get(m, id).price = null
  /\ "^GSPC" \in DOMAIN lastGoodById
  /\ lastGoodById["^GSPC"].price # null

\* Whether the index item is taken from lastGoodById.
UsesLastGood(ids, m) ==
  /\ wantSPX(ids)
  /\ NoPrice(m, "^GSPC")
  /\ "^GSPC" \in DOMAIN lastGoodById
  /\ lastGoodById["^GSPC"].price # null

\* merged after the index fallback.
WithLastGood(ids, m) ==
  IF UsesLastGood(ids, m)
  THEN Assign(m, [id \in {"^GSPC"} |->
         Quote(lastGoodById["^GSPC"].price, lastGoodById["^GSPC"].prevClose,
               IF Get(m, "^GSPC").source # "" THEN Get(m, "^GSPC").source
               ELSE "snapshot-id")])
  ELSE m

\* Mutant of ItemsOf: a repeated identifier yields one item.
ItemsOf_Dedup(ids, m) ==
  LET firsts == SelectSeq([i \in 1..Len(ids) |-> <<i, ids[i]>>],
                          LAMBDA p : \A k \in 1..(p[1] - 1) : ids[k] # p[2])
  IN [i \in 1..Len(firsts) |-> mapItem(firsts[i][2], Get(m, firsts[i][2]))]

\* ids.map((id) => mapItem(id, merged[id] || {}))
ItemsOf(ids, m) == [i \in 1..Len(ids) |-> mapItem(ids[i], Get(m, ids[i]))]

hasAnyPrice(items) == \E i \in 1..Len(items) : items[i].price # null

\* Mutant of Remember: an identifier already in memory keeps its entry.
Remember_KeepFirst(mem, items, t) ==
  LET priced == { i \in 1..Len(items) : items[i].price # null }
      last(id) == CHOOSE i \in priced :
                    /\ items[i].id = id
                    /\ \A k \in priced : items[k].id = id => k <= i
  IN [id \in DOMAIN mem \cup { items[i].id : i \in priced } |->
        IF id \in DOMAIN mem
        THEN mem[id]
        ELSE [price |-> items[last(id)].price,
              prevClose |-> items[last(id)].prevClose,
              source |-> items[last(id)].source, ts |-> t]]

\* Mutant of Remember: every item is stored, priced or not.
Remember_Unpriced(mem, items, t) ==
  LET last(id) == CHOOSE i \in 1..Len(items) :
                    /\ items[i].id = id
                    /\ \A k \in 1..Len(items) : items[k].id = id => k <= i
  IN [id \in DOMAIN mem \cup { items[i].id : i \in 1..Len(items) } |->
        IF \E i \in 1..Len(items) : items[i].id = id
        THEN [price |-> items[last(id)].price,
              prevClose |-> items[last(id)].prevClose,
              source |-> items[last(id)].source, ts |-> t]
        ELSE mem[id]]

\* The item-level memory after the items of one request are stored.
Remember(mem, items, t) ==
  LET priced == { i \in 1..Len(items) : items[i].price # null }
      last(id) == CHOOSE i \in priced :
                    /\ items[i].id = id
                    /\ \A k \in priced : items[k].id = id => k <= i
  IN [id \in DOMAIN mem \cup { items[i].id : i \in priced } |->
        IF \E i \in priced : items[i].id = id
        THEN [price |-> items[last(id)].price,
              prevClose |-> items[last(id)].prevClose,
              source |-> items[last(id)].source, ts |-> t]
        ELSE mem[id]]

\* Mutant of StoreSnapshot: the new items are added to the cached ones.
StoreSnapshot_Merged(payload, t) ==
  /\ lastGoodSnapshot' = [payload EXCEPT !.items = lastGoodSnapshot.items \o @]
  /\ lastGoodAt' = t

\* lastGoodSnapshot = payload; lastGoodAt = Date.now()
StoreSnapshot(payload, t) ==
  /\ lastGoodSnapshot' = payload
  /\ lastGoodAt' = t

\* Mutant of ServesSnapshot: the snapshot is never served.
ServesSnapshot_Never(items) == FALSE

\* Mutant of ServesSnapshot: an item backfilled from the memory does not
\* count as priced.
ServesSnapshot_IgnoresBackfill(items) ==
  /\ lastGoodSnapshot # NoSnapshot
  /\ \A i \in 1..Len(items) :
       items[i].price = null \/ items[i].source = "snapshot-id"

\* Whether the request is answered with the cached snapshot.
ServesSnapshot(items) == ~hasAnyPrice(items) /\ lastGoodSnapshot # NoSnapshot

\* Mutant of StoresSnapshot: every live payload is cached.
StoresSnapshot_Always(items) == TRUE

\* Whether the request's payload becomes the cached snapshot.
StoresSnapshot(items) == hasAnyPrice(items)

\* Mutant of Payload: a payload without any price is marked stale.
Payload_StaleWhenEmpty(items, errs, debug, srcs, t) ==
  [ok |-> TRUE, ts |-> t, items |-> items,
   meta |-> [NoMeta EXCEPT
               !.partial = \E i \in 1..Len(items) : items[i].price = null,
               !.stale = ~hasAnyPrice(items),
               !.errors = errs,
               !.sources = IF debug THEN <<srcs>> ELSE << >>]]

\* The payload of a live response.
Payload(items, errs, debug, srcs, t) ==
  [ok |-> TRUE, ts |-> t, items |-> items,
   meta |-> [NoMeta EXCEPT
               !.partial = \E i \in 1..Len(items) : items[i].price = null,
               !.stale = FALSE,
               !.errors = errs,
               !.sources = IF debug THEN <<srcs>> ELSE << >>]]

\* Mutant of SnapshotResponse: the snapshot is sent as it was cached.
SnapshotResponse_Unstamped(debug, srcs) == lastGoodSnapshot

\* snap = { ...lastGoodSnapshot } with meta stamped servedFrom and snapshotAt.
SnapshotResponse(debug, srcs) ==
  [lastGoodSnapshot EXCEPT
     !.meta = [@ EXCEPT !.servedFrom = "snapshot",
                        !.snapshotAt = lastGoodAt,
                        !.sources = IF debug THEN <<srcs>> ELSE @]]

\* The handler from the index fallback to its return: no await in between.
\* (Each local is bound once, as the code computes it once.)
Finish(r, m0, errs0, fhWants) ==
  \E ids \in {IdsOf(request[r].items)} :
  \E m \in {WithLastGood(ids, m0)} :
  \E errs \in {IF UsesLastGood(ids, m0)
                THEN Append(errs0, <<"spx-used-last-good">>) ELSE errs0} :
  \E items \in {ItemsOf(ids, m)} :
  \E srcs \in {SourcesOf(ids, fhWants)} :
  \E t \in {IF ServesSnapshot(items) THEN now ELSE now + 1} :
  \E payload \in {Payload(items, errs, request[r].debug, srcs, t)} :
     /\ now' = t
     /\ lastGoodById' = Remember(lastGoodById, items, t)
     /\ IF ServesSnapshot(items)
        THEN \E snap \in {SnapshotResponse(request[r].debug, srcs)} :
               /\ sendJson(r, 200, snap)
               /\ lastGoodSnapshot' = CachedAfterServing(snap)
               /\ UNCHANGED lastGoodAt
        ELSE /\ sendJson(r, 200, payload)
             /\ IF StoresSnapshot(items)
                THEN StoreSnapshot(payload, t)
                ELSE UNCHANGED <<lastGoodSnapshot, lastGoodAt>>

\* wantStocks.filter((sym) => !merged[sym]?.price)
missingStockIds(ids, m) == SelectSeq(wantStocks(ids), LAMBDA sym : NoPrice(m, sym))

\* The handler from the end of the primary round on: it awaits fetchFinnhub
\* when stocks are missing and the token is set, and finishes otherwise.
AfterRace(r, m, errs) ==
  \E missing \in {missingStockIds(IdsOf(request[r].items), m)} :
     IF missing # << >> /\ FH_TOKEN
     THEN /\ pc' = [pc EXCEPT ![r] = "finnhub"]
          /\ merged' = [merged EXCEPT ![r] = m]
          /\ errors' = [errors EXCEPT ![r] = errs]
          /\ fh' = [fh EXCEPT ![r] = [wants |-> missing, pending |-> Range(missing),
                                      out |-> EmptyMap, errs |-> << >>]]
          /\ UNCHANGED <<cache, now, response, sent, job>>
     ELSE Finish(r, m, errs, << >>)

RECURSIVE MergedUpTo(_, _)
\* The loop over settled: merged after the first k tasks.
MergedUpTo(jobs, k) ==
  IF k = 0 THEN EmptyMap
  ELSE IF jobs[JobNames[k]].st = "settled"
       THEN Assign(MergedUpTo(jobs, k - 1), jobs[JobNames[k]].data)
       ELSE MergedUpTo(jobs, k - 1)

RECURSIVE ErrorsUpTo(_, _)
\* The loop over settled: errors after the first k tasks.
ErrorsUpTo(jobs, k) ==
  IF k = 0 THEN << >>
  ELSE IF jobs[JobNames[k]].st = "settled" /\ jobs[JobNames[k]].errs # << >>
       THEN Append(ErrorsUpTo(jobs, k - 1), jobs[JobNames[k]].errs)
       ELSE ErrorsUpTo(jobs, k - 1)

\* What the handler merges when the deadline promise wins the race: the
\* rejection is caught, so nothing is merged.
DeadlineMerged(jobs) == EmptyMap
DeadlineErrors(jobs) == <<<<"global-deadline">>>>

\* ---------------------------------------------------------------- actions

\* Mutant of missingItems: the parameter is not validated.
missingItems_Never(q) == FALSE

\* if (!raw): the items parameter is missing or empty.
missingItems(q) == q.items = <<"">>

\* A request arrives; the handler runs up to its first await or its return.
Begin(r, q) ==
  /\ pc[r] \in {"idle", "done"}
  /\ accepted < MaxRequests
  /\ accepted' = accepted + 1
  /\ request' = [request EXCEPT ![r] = q]
  /\ UNCHANGED <<env, lastGoodAt, lastGoodById>>
  /\ IF q.method = "OPTIONS"
     THEN /\ sendJson(r, 200, [ok |-> TRUE])
          /\ UNCHANGED <<now, lastGoodSnapshot>>
     ELSE IF missingItems(q)
     THEN /\ sendJson(r, 400, [ok |-> FALSE, error |-> "missing items"])
          /\ UNCHANGED <<now, lastGoodSnapshot>>
     ELSE IF DecodeThrows(q.items)
     THEN ServeOnError(r, "URI malformed")
     ELSE /\ job' = [job EXCEPT ![r] =
                [j \in Range(JobNames) |->
                   IF ~Launched(IdsOf(q.items), j) THEN NoJob
                   ELSE IF j = "twelvedata" THEN startTwelveData(TD_TOKEN)
                   ELSE Pending(1, EmptyMap, << >>)]]
          /\ pc' = [pc EXCEPT ![r] = "race"]
          /\ response' = [response EXCEPT ![r] = NoResponse]
          /\ sent' = [sent EXCEPT ![r] = 0]
          /\ UNCHANGED <<now, lastGoodSnapshot, merged, errors, fh>>

StepFrame == UNCHANGED <<env, cache, now, accepted, pc, request, merged, errors,
                         fh, response, sent>>

\* The Twelve Data call of slot r returns or fails.
TwelveDataStep(r) ==
  /\ job[r]["twelvedata"].st = "pending"
  /\ \E kind \in CallKinds :
       \E body \in BodiesOf(kind, TwelveBodies(wantStocks(IdsOf(request[r].items)))) :
         job' = [job EXCEPT ![r]["twelvedata"] =
                   fetchTwelveData(wantStocks(IdsOf(request[r].items)), kind, body)]
  /\ StepFrame

\* The CoinGecko or CoinCap call of slot r returns or fails.
CryptoStep(r) ==
  /\ job[r]["crypto"].st = "pending"
  /\ \E kind \in CallKinds :
       \E body \in BodiesOf(kind, CryptoBodies) :
         job' = [job EXCEPT ![r]["crypto"] =
                   fetchCryptoWithFallback(wantCrypto(IdsOf(request[r].items)),
                                           @, kind, body)]
  /\ StepFrame

\* The CriptoYa call of slot r returns or fails.
CriptoYaStep(r) ==
  /\ job[r]["criptoya"].st = "pending"
  /\ \E kind \in CallKinds : \E body \in BodiesOf(kind, FxBodies) :
       job' = [job EXCEPT ![r]["criptoya"] = fetchCriptoYa(kind, body)]
  /\ StepFrame

\* The Stooq attempt in flight for slot r returns or fails.
StooqStep(r) ==
  /\ job[r]["stooq"].st = "pending"
  /\ \E kind \in CallKinds : \E body \in BodiesOf(kind, IndexPrices \cup {null}) :
       job' = [job EXCEPT ![r]["stooq"] = fetchStooqSPXRobust(@, kind, body)]
  /\ StepFrame

\* Mutant of RaceSettled: the handler does not wait for every task to
\* settle before it goes on to the fallback.
RaceSettled_NoAwait(r) ==
  /\ pc[r] = "race"
  /\ \E m \in {MergedUpTo(job[r], Len(JobNames))} :
     \E errs \in {ErrorsUpTo(job[r], Len(JobNames))} : AfterRace(r, m, errs)
  /\ UNCHANGED <<env, accepted, request>>

\* Promise.allSettled(jobs) wins the race: every task has settled.
RaceSettled(r) ==
  /\ pc[r] = "race"
  /\ \A j \in Range(JobNames) : job[r][j].st # "pending"
  /\ \E m \in {MergedUpTo(job[r], Len(JobNames))} :
     \E errs \in {ErrorsUpTo(job[r], Len(JobNames))} : AfterRace(r, m, errs)
  /\ UNCHANGED <<env, accepted, request>>

\* The deadline timer fires while a task is still pending.
Deadline(r) ==
  /\ pc[r] = "race"
  /\ \E j \in Range(JobNames) : job[r][j].st = "pending"
  /\ \E m \in {DeadlineMerged(job[r])} :
     \E errs \in {DeadlineErrors(job[r])} : AfterRace(r, m, errs)
  /\ UNCHANGED <<env, accepted, request>>

\* One of the Finnhub calls of slot r returns or fails.
FinnhubStep(r) ==
  /\ pc[r] = "finnhub"
  /\ \E sym \in fh[r].pending : \E kind \in CallKinds :
       \E body \in BodiesOf(kind, FinnhubBodies) :
       fh' = [fh EXCEPT ![r] = FinnhubCall(@, sym, kind, body)]
  /\ UNCHANGED <<env, cache, now, accepted, pc, request, job, merged, errors,
                 response, sent>>

\* Mutant of FinnhubSettled: the handler also collects what the tasks of the
\* primary round have settled with since the deadline.
FinnhubSettled_CollectsLate(r) ==
  /\ pc[r] = "finnhub"
  /\ fh[r].pending = {}
  /\ \E m \in {Assign(Assign(merged[r], MergedUpTo(job[r], Len(JobNames))),
                       fh[r].out)} :
     \E errs \in {IF fh[r].errs # << >> THEN Append(errors[r], fh[r].errs)
                   ELSE errors[r]} : Finish(r, m, errs, fh[r].wants)
  /\ UNCHANGED <<env, accepted, request>>

\* fetchFinnhub returns: the handler merges its result and finishes.
FinnhubSettled(r) ==
  /\ pc[r] = "finnhub"
  /\ fh[r].pending = {}
  /\ \E m \in {Assign(merged[r], fh[r].out)} :
     \E errs \in {IF fh[r].errs # << >> THEN Append(errors[r], fh[r].errs)
                   ELSE errors[r]} : Finish(r, m, errs, fh[r].wants)
  /\ UNCHANGED <<env, accepted, request>>

\* One handler at a time.  The handlers of concurrent requests touch the
\* cache only in Begin's synchronous paths and in Finish, each a single step,
\* so the cache histories of interleaved requests are those of this
\* specification; SpecConcurrent interleaves two handlers step by step.
Next ==
  \/ \E q \in Requests : Begin(1, q)
  \/ TwelveDataStep(1)
  \/ CryptoStep(1)
  \/ CriptoYaStep(1)
  \/ StooqStep(1)
  \/ RaceSettled(1)
  \/ Deadline(1)
  \/ FinnhubStep(1)
  \/ FinnhubSettled(1)

Spec == Init /\ [][Next]_vars

\* A step of the handler in flight or of one of its upstream calls.
Progress ==
  \/ TwelveDataStep(1)
  \/ CryptoStep(1)
  \/ CriptoYaStep(1)
  \/ StooqStep(1)
  \/ RaceSettled(1)
  \/ Deadline(1)
  \/ FinnhubStep(1)
  \/ FinnhubSettled(1)

\* Timers fire and the event loop runs what is ready: while an upstream call
\* is outstanding (it returns, fails, or its per-call timer aborts it), the
\* deadline timer is armed or a continuation is ready, one of them runs.
Fairness == WF_vars(Progress)

SpecFair == Spec /\ Fairness

NextConcurrent ==
  \/ \E r \in Slots : \E q \in ConcurrentRequests : Begin(r, q)
  \/ \E r \in Slots : CriptoYaStep(r)
  \/ \E r \in Slots : StooqStep(r)
  \/ \E r \in Slots : RaceSettled(r)
  \/ \E r \in Slots : Deadline(r)

\* Neither request of ConcurrentRequests asks for a stock, so the tokens
\* are not read in these runs.
InitConcurrent == Init /\ TD_TOKEN /\ FH_TOKEN

SpecConcurrent == InitConcurrent /\ [][NextConcurrent]_vars

\* The requests of the runs that follow one crypto task to its end.
AdapterRequests ==
  [method : {"GET"},
   items : { <<"BTC">>, <<"ETH">>, <<"BTC", "ETH">>, <<"ETH", "BTC", "ETH">> },
   debug : {FALSE}]

\* The crypto adapter on its own: a request launches the task and its calls
\* return one after the other; the handler's race is left pending.
NextAdapters ==
  \/ \E q \in AdapterRequests : Begin(1, q)
  \/ CryptoStep(1)

SpecAdapters == Init /\ [][NextAdapters]_vars

\* The raw quotes mapItem is called with on its own: every combination of
\* absent and present fields, with percentages that round to 0 at two
\* decimals (4 and -5 are 0.004 % and -0.005 %).
RawQuotes ==
  [price : {null, 0, 90, 100}, prevClose : {null, 0, 90},
   changePct : {null, 0, 4, 1500}, changePct24h : {null, 0, -5, -5000},
   source : {"test"}]

InitNormalizer ==
  /\ InitProcess
  /\ TD_TOKEN
  /\ FH_TOKEN
  /\ mapIn \in [id : {"NVDA"}, raw : RawQuotes]
  /\ mapOut = NoItem

\* mapItem(id, raw) returns.
Normalize ==
  /\ mapOut = NoItem
  /\ mapOut' = mapItem(mapIn.id, mapIn.raw)
  /\ UNCHANGED <<TD_TOKEN, FH_TOKEN, cache, now, accepted, pc, request, job,
                 merged, errors, fh, response, sent, mapIn>>

NextNormalizer == Normalize

SpecNormalizer == InitNormalizer /\ [][NextNormalizer]_vars

\* ------------------------------------------------------------- properties

\* The body of the response slot r sent.
Body(r) == response[r].body

\* Whether the response of slot r is a payload (it has items and meta).
IsPayload(r) == response[r].status = 200 /\ "meta" \in DOMAIN Body(r)

\* C1: a request whose items parameter is not empty is answered 200 with
\* ok: true, whatever happened in its pipeline; the only other status the
\* handler sends is the 400 of a GET whose items parameter is missing.
C1_AlwaysSuccess ==
  \A r \in Slots :
    pc[r] = "done" =>
      /\ request[r].items # <<"">> => response[r].status = 200 /\ Body(r).ok
      /\ response[r].status # 200 =>
           /\ response[r].status = 400
           /\ request[r].items = <<"">>
           /\ request[r].method # "OPTIONS"

\* A request with an undecodable identifier was answered 200 with the
\* degraded payload.
C1_Witness ==
  /\ pc[1] = "done"
  /\ request[1].items = <<Malformed>>
  /\ response[1].status = 200
  /\ Body(1).ok
  /\ Body(1).meta.stale

\* C2: every request gets exactly one response: sendJson is never called
\* twice by one handler, and a handler that is awaiting its adapters
\* eventually returns having called it once.
C2_EventuallyOneResponse ==
  \A r \in Slots :
    /\ [](sent[r] <= 1)
    /\ [](pc[r] = "done" => sent[r] = 1)
    /\ (pc[r] \in {"race", "finnhub"}) ~> (pc[r] = "done" /\ sent[r] = 1)

\* A request was answered after the deadline fired and after a Finnhub call
\* was aborted by its timer.
C2_Witness ==
  /\ pc[1] = "done"
  /\ sent[1] = 1
  /\ IsPayload(1)
  /\ Body(1).meta.errors = << <<"global-deadline">>, <<"fh-ex-NVDA-AbortError">> >>

\* The identifiers a request supplies: the segments of its items parameter,
\* percent-decoded, without the empty ones.
Supplied(r) ==
  SelectSeq([i \in 1..Len(request[r].items) |->
               IF request[r].items[i] = "%5EGSPC" THEN "^GSPC"
               ELSE request[r].items[i]],
            LAMBDA s : s # "")

\* The handler of slot r sends its response in this step, after its adapters.
Responds(r) == pc[r] \in {"race", "finnhub"} /\ pc'[r] = "done"

\* The quotes the adapters of slot r have handed to the handler so far.
Resolved(r) ==
  IF pc[r] = "finnhub" THEN Assign(merged[r], fh[r].out)
  ELSE IF \E j \in Range(JobNames) : job[r][j].st = "pending" THEN EmptyMap
  ELSE MergedUpTo(job[r], Len(JobNames))

\* No adapter of slot r resolved a price: each failed, returned nothing, or
\* was cut off by the deadline.
NoAdapterResolved(r) ==
  /\ \A j \in Range(JobNames) :
       \A id \in DOMAIN job[r][j].data : job[r][j].data[id].price = null
  /\ \A id \in DOMAIN fh[r].out : fh[r].out[id].price = null

\* The items of the body sent have the ids supplied, in their order.
ItemsFollow(body, ids) ==
  /\ Len(body.items) = Len(ids)
  /\ \A i \in 1..Len(ids) : body.items[i].id = ids[i]

\* C3 as stated: on every path that serves a payload, the items have the
\* length and the order of the identifiers supplied.
C3_Original ==
  \A r \in Slots :
    (pc[r] = "done" /\ IsPayload(r)) => ItemsFollow(Body(r), Supplied(r))

\* C3: a payload served live (not from the snapshot, not the degraded one of
\* the fault path) has one item per identifier supplied, in the order
\* supplied, repeated identifiers included.
C3_LiveItemsFollowRequest ==
  \A r \in Slots :
    (pc[r] = "done" /\ IsPayload(r) /\ Body(r).meta.servedFrom = ""
       /\ ~Body(r).meta.stale)
      => ItemsFollow(Body(r), Supplied(r))

\* A live response to NVDA,,NVDA carries two NVDA items.
C3_Witness ==
  /\ pc[1] = "done"
  /\ request[1].items = <<"NVDA", "", "NVDA">>
  /\ IsPayload(1)
  /\ Body(1).meta.servedFrom = ""
  /\ Len(Body(1).items) = 2
  /\ Body(1).items[1].id = "NVDA"
  /\ Body(1).items[2].id = "NVDA"
  /\ Body(1).items[2].price # null

\* The request of slot r asks for the index and the memory holds its price.
IndexRemembered(r) ==
  /\ "^GSPC" \in Range(Supplied(r))
  /\ "^GSPC" \in DOMAIN lastGoodById

\* The response sent in this step is the snapshot cached before the step.
SnapshotServed(r) ==
  /\ response'[r].status = 200
  /\ response'[r].body.items = lastGoodSnapshot.items
  /\ response'[r].body.meta.servedFrom = "snapshot"

\* C4 as stated: when every adapter of a request fails or times out and a
\* snapshot is cached, the response carries the snapshot's items and
\* servedFrom "snapshot".
C4_Original ==
  [][\A r \in Slots :
       (Responds(r) /\ NoAdapterResolved(r) /\ lastGoodSnapshot # NoSnapshot)
         => SnapshotServed(r)]_vars

\* C4: when every adapter of a request fails or times out and a snapshot is
\* cached, the response carries the snapshot's items and servedFrom
\* "snapshot", unless the request asks for ^GSPC and the memory holds a
\* price for it.
C4_AllFailServesSnapshot ==
  [][\A r \in Slots :
       (Responds(r) /\ NoAdapterResolved(r) /\ lastGoodSnapshot # NoSnapshot
          /\ ~IndexRemembered(r))
         => SnapshotServed(r)]_vars

\* A request for NVDA whose adapters all failed was answered with the
\* snapshot of an earlier request for other identifiers.
C4_Witness ==
  /\ pc[1] = "done"
  /\ request[1].items = <<"NVDA", "", "NVDA">>
  /\ IsPayload(1)
  /\ Body(1).meta.servedFrom = "snapshot"
  /\ Body(1).items = lastGoodSnapshot.items
  /\ Body(1).items[1].id # "NVDA"

\* C5 as stated: when every adapter fails and no snapshot is cached, the
\* response has price null for every item and stale true.
C5_Original ==
  [][\A r \in Slots :
       (Responds(r) /\ NoAdapterResolved(r) /\ lastGoodSnapshot = NoSnapshot)
         => /\ response'[r].status = 200
            /\ \A i \in 1..Len(response'[r].body.items) :
                 response'[r].body.items[i].price = null
            /\ response'[r].body.meta.stale]_vars

\* C5: when every adapter fails and no snapshot is cached, the response is
\* the live payload: one item per identifier supplied, each with price
\* null, partial true when there is an item, and stale false.
C5_AllFailNoSnapshotIsLive ==
  [][\A r \in Slots :
       (Responds(r) /\ NoAdapterResolved(r) /\ lastGoodSnapshot = NoSnapshot)
         => /\ response'[r].status = 200
            /\ response'[r].body.ok
            /\ ItemsFollow(response'[r].body, Supplied(r))
            /\ \A i \in 1..Len(response'[r].body.items) :
                 response'[r].body.items[i].price = null
            /\ response'[r].body.meta.partial = (Supplied(r) # << >>)
            /\ ~response'[r].body.meta.stale
            /\ response'[r].body.meta.servedFrom = ""]_vars

\* With nothing cached, a request whose adapters all failed was answered
\* with null prices.
C5_Witness ==
  /\ pc[1] = "done"
  /\ lastGoodSnapshot = NoSnapshot
  /\ IsPayload(1)
  /\ Body(1).meta.servedFrom = ""
  /\ Len(Body(1).items) = 2
  /\ \A i \in 1..2 : Body(1).items[i].price = null
  /\ Body(1).meta.errors # << >>

\* The final item list of the request of slot r, were it to respond now.
OwnItems(r) ==
  LET m == WithLastGood(Supplied(r), Resolved(r))
  IN [i \in 1..Len(Supplied(r)) |-> mapItem(Supplied(r)[i], Get(m, Supplied(r)[i]))]

\* C6: the snapshot is replaced exactly when a request responds whose own
\* final item list has a price, and then by that request's payload; so a
\* cached snapshot always has a priced item.
C6_SnapshotReplacedIffPriced ==
  /\ [][\A r \in Slots :
          Responds(r) =>
            IF \E i \in 1..Len(OwnItems(r)) : OwnItems(r)[i].price # null
            THEN /\ lastGoodSnapshot' = response'[r].body
                 /\ lastGoodSnapshot'.items = OwnItems(r)
                 /\ lastGoodAt' = lastGoodSnapshot'.ts
            ELSE UNCHANGED <<lastGoodSnapshot, lastGoodAt>>]_vars
  /\ [][(\A r \in Slots : ~Responds(r))
          => UNCHANGED <<lastGoodSnapshot, lastGoodAt>>]_vars
  /\ [](lastGoodSnapshot # NoSnapshot =>
          \E i \in 1..Len(lastGoodSnapshot.items) :
             lastGoodSnapshot.items[i].price # null)

\* The payload of the request just answered replaced an earlier snapshot.
C6_Witness ==
  /\ pc[1] = "done"
  /\ lastGoodSnapshot = Body(1)
  /\ lastGoodAt = Body(1).ts
  /\ \E id \in DOMAIN lastGoodById : lastGoodById[id].ts < lastGoodAt

\* C7: when a request asks for ^GSPC, its index adapter resolved no price
\* and the memory holds one, each ^GSPC item of the response carries the
\* remembered price and the errors include spx-used-last-good.
C7_IndexBackfilled ==
  [][\A r \in Slots :
       (Responds(r) /\ IndexRemembered(r)
          /\ Get(job[r]["stooq"].data, "^GSPC").price = null)
         => /\ response'[r].status = 200
            /\ ItemsFollow(response'[r].body, Supplied(r))
            /\ \A i \in 1..Len(Supplied(r)) :
                 Supplied(r)[i] = "^GSPC" =>
                   response'[r].body.items[i].price = lastGoodById["^GSPC"].price
            /\ \E k \in 1..Len(response'[r].body.meta.errors) :
                 response'[r].body.meta.errors[k] = <<"spx-used-last-good">>]_vars

\* The index item was backfilled from the memory next to a BLUE item that
\* its adapter priced.
C7_Witness ==
  /\ pc[1] = "done"
  /\ request[1].items = <<"^GSPC", "BLUE">>
  /\ IsPayload(1)
  /\ Body(1).items[1].source = "snapshot-id"
  /\ Body(1).items[1].price # null
  /\ Body(1).items[2].price # null
  /\ \E k \in 1..Len(Body(1).meta.errors) :
       Body(1).meta.errors[k] = <<"spx-used-last-good">>

\* Slot r was answered live with a priced item.
LivePriced(r) ==
  /\ pc[r] = "done"
  /\ IsPayload(r)
  /\ Body(r).meta.servedFrom = ""
  /\ \E i \in 1..Len(Body(r).items) : Body(r).items[i].price # null

\* C8: after two concurrent requests for different items have both been
\* answered live with prices, the snapshot is the whole payload of one of
\* them, and lastGoodAt is that payload's time.
C8_SnapshotIsOnePayload ==
  (LivePriced(1) /\ LivePriced(2) /\ request[1].items # request[2].items)
    => /\ lastGoodSnapshot \in {Body(1), Body(2)}
       /\ lastGoodAt = lastGoodSnapshot.ts

\* Two requests overlapped, slot 2 answered first, and the snapshot is the
\* payload of slot 1.
C8_Witness ==
  /\ LivePriced(1)
  /\ LivePriced(2)
  /\ request[1].items = <<"%5EGSPC">>
  /\ request[2].items = <<"BLUE">>
  /\ Body(2).ts < Body(1).ts
  /\ lastGoodSnapshot = Body(1)
  /\ accepted = 2

\* C9: a GET whose items parameter is missing or empty is answered 400
\* with ok false and error "missing items"; no adapter is started and the
\* cache is neither read into the response nor changed.
C9_MissingItems ==
  /\ [](\A r \in Slots :
          (pc[r] = "done" /\ request[r].method = "GET"
             /\ request[r].items = <<"">>)
            => response[r] = [status |-> 400,
                              body |-> [ok |-> FALSE, error |-> "missing items"]])
  /\ [][\A r \in Slots :
          (accepted' = accepted + 1 /\ request'[r] # request[r]
             /\ request'[r].method = "GET" /\ request'[r].items = <<"">>)
            => /\ pc'[r] = "done"
               /\ UNCHANGED cache
               /\ \A j \in Range(JobNames) :
                    job'[r][j].st = "pending" => job'[r][j] = job[r][j]]_vars

\* A GET without items was answered 400 while a snapshot was cached.
C9_Witness ==
  /\ pc[1] = "done"
  /\ request[1].method = "GET"
  /\ request[1].items = <<"">>
  /\ response[1].status = 400
  /\ lastGoodSnapshot # NoSnapshot

\* The request of slot r faulted before any adapter was started.
Faulted(r) ==
  /\ pc[r] = "done"
  /\ request[r].method = "GET"
  /\ request[r].items # <<"">>
  /\ \E i \in 1..Len(request[r].items) : request[r].items[i] = "%"

\* The snapshot as the fault path serves it.
FaultSnapshot ==
  [lastGoodSnapshot EXCEPT !.meta.servedFrom = "snapshot-on-error",
                           !.meta.error = "URI malformed"]

\* C10 as stated: a fault in the handler is answered with the snapshot
\* stamped snapshot-on-error, or, with nothing cached, with a payload that
\* lists the requested ids with price null.
C10_Original ==
  \A r \in Slots :
    Faulted(r) =>
      /\ response[r].status = 200
      /\ IF lastGoodSnapshot # NoSnapshot
         THEN Body(r) = FaultSnapshot
         ELSE /\ Body(r).ok
              /\ ItemsFollow(Body(r), request[r].items)
              /\ \A i \in 1..Len(Body(r).items) : Body(r).items[i].price = null

\* C10: a fault in the handler is answered 200: with the snapshot stamped
\* servedFrom snapshot-on-error and the fault's message, or, with nothing
\* cached, with an empty items list, partial and stale true, and the
\* fault's message as the only error.
C10_FaultServed ==
  \A r \in Slots :
    Faulted(r) =>
      /\ response[r].status = 200
      /\ IF lastGoodSnapshot # NoSnapshot
         THEN Body(r) = FaultSnapshot
         ELSE /\ Body(r).ok
              /\ Body(r).items = << >>
              /\ Body(r).meta.partial
              /\ Body(r).meta.stale
              /\ Body(r).meta.errors = <<<<"URI malformed">>>>

\* A request with an undecodable identifier was answered with the snapshot.
C10_Witness ==
  /\ Faulted(1)
  /\ lastGoodSnapshot # NoSnapshot
  /\ Body(1) = FaultSnapshot
  /\ Body(1).items # << >>

\* The deadline timer of slot r fires in this step: the handler leaves the
\* race while a task of its primary round is still pending.
DeadlineFires(r) ==
  /\ pc[r] = "race"
  /\ pc'[r] # "race"
  /\ \E j \in Range(JobNames) : job[r][j].st = "pending"

\* What the handler of slot r holds as its merged result after this step:
\* merged while it awaits fetchFinnhub, the quotes of its response's items
\* once it has answered live.
PricedAfter(r, id) ==
  IF pc'[r] = "finnhub" THEN Get(merged'[r], id).price # null
  ELSE \E i \in 1..Len(response'[r].body.items) :
         /\ response'[r].body.items[i].id = id
         /\ response'[r].body.items[i].price # null

\* The error list of slot r after this step.
ErrorsAfter(r) ==
  IF pc'[r] = "finnhub" THEN errors'[r] ELSE response'[r].body.meta.errors

\* C11: when the deadline fires with a task still pending, every requested
\* identifier a settled task resolved with a price is priced in the merged
\* result, every settled task's error is in the error list, and the
\* global-deadline token is recorded.
C11_DeadlineMergesSettled ==
  [][\A r \in Slots :
       DeadlineFires(r) =>
         /\ \A j \in Range(JobNames) :
              job[r][j].st = "settled" =>
                /\ \A id \in DOMAIN job[r][j].data :
                     (id \in Range(Supplied(r)) /\ job[r][j].data[id].price # null)
                       => PricedAfter(r, id)
                /\ job[r][j].errs # << >> =>
                     \E k \in 1..Len(ErrorsAfter(r)) : ErrorsAfter(r)[k] = job[r][j].errs
         /\ \E k \in 1..Len(ErrorsAfter(r)) : ErrorsAfter(r)[k] = <<"global-deadline">>]_vars

\* The requested stock-like identifiers that have no price in the merged
\* result m.
StocksWithoutPrice(r, m) ==
  { id \in Range(Supplied(r)) :
      id \in TickerShaped /\ id \notin FixedIds /\ Get(m, id).price = null }

\* C12: after the primary round fetchFinnhub is called, when FINNHUB_TOKEN
\* is set, with exactly the requested stock-like identifiers that have no
\* price (a price of 0 is a price); an identifier the primary round priced
\* keeps its record.
C12_FallbackForMissingOnly ==
  [][\A r \in Slots :
       /\ (pc[r] = "race" /\ pc'[r] # "race") =>
            IF FH_TOKEN /\ StocksWithoutPrice(r, Resolved(r)) # {}
            THEN /\ pc'[r] = "finnhub"
                 /\ Range(fh'[r].wants) = StocksWithoutPrice(r, Resolved(r))
            ELSE pc'[r] = "done"
       /\ (pc[r] = "finnhub" /\ Responds(r)) =>
            \A i \in 1..Len(response'[r].body.items) :
              LET it == response'[r].body.items[i]
              IN (response'[r].body.meta.servedFrom = ""
                    /\ Get(merged[r], it.id).price # null)
                   => /\ it.price = merged[r][it.id].price
                      /\ it.source = merged[r][it.id].source]_vars

\* C13: CoinCap is called only while a requested crypto identifier has no
\* record from CoinGecko, and whatever CoinCap answers, an identifier
\* CoinGecko resolved with a price keeps CoinGecko's record.
C13_PrimaryWins ==
  /\ [](\A r \in Slots :
          (job[r]["crypto"].st = "pending" /\ job[r]["crypto"].call = 2)
            => \E id \in Range(Supplied(r)) :
                 id \in CryptoIds /\ id \notin DOMAIN job[r]["crypto"].data)
  /\ [][\A r \in Slots :
          (job[r]["crypto"].st = "pending" /\ job[r]["crypto"].call = 2
             /\ job'[r]["crypto"].st = "settled")
            => \A id \in DOMAIN job[r]["crypto"].data \cap Range(Supplied(r)) :
                 job[r]["crypto"].data[id].price # null
                   => job'[r]["crypto"].data[id] = job[r]["crypto"].data[id]]_vars

\* mapItem has returned for the quote mapIn.raw.
Mapped == mapOut # NoItem

\* x is n / d rounded to two decimals, halves up (all in units of 0.001 %).
IsRounded(x, n, d) == x % 10 = 0 /\ d * (x - 5) <= n /\ n < d * (x + 5)

\* price - prevClose when both are present, else null.
Difference(raw) ==
  IF raw.price # null /\ raw.prevClose # null THEN raw.price - raw.prevClose
  ELSE null

\* C14: mapItem takes the change from the first of changePct24h, changePct
\* and (price, prevClose > 0) that is present, rounded to two decimals, and
\* null when none is; changeAbs is price - prevClose in the third case and,
\* in the first two, whenever price and prevClose are both present.
C14_ChangePrecedence ==
  Mapped =>
    LET raw == mapIn.raw
    IN IF raw.changePct24h # null
       THEN /\ IsRounded(mapOut.changePct, raw.changePct24h, 1)
            /\ mapOut.changeAbs = Difference(raw)
       ELSE IF raw.changePct # null
       THEN /\ IsRounded(mapOut.changePct, raw.changePct, 1)
            /\ mapOut.changeAbs = Difference(raw)
       ELSE IF raw.price # null /\ raw.prevClose # null /\ raw.prevClose > 0
       THEN /\ mapOut.changeAbs = raw.price - raw.prevClose
            /\ IsRounded(mapOut.changePct,
                         (raw.price - raw.prevClose) * 100000, raw.prevClose)
       ELSE /\ mapOut.changePct = null
            /\ mapOut.changeAbs = null

\* price 100 and prevClose 90 alone gave changeAbs 10, changePct 11.11 and
\* direction up.
C14_Witness ==
  /\ Mapped
  /\ mapIn.raw = [price |-> 100, prevClose |-> 90, changePct |-> null,
                  changePct24h |-> null, source |-> "test"]
  /\ mapOut.changeAbs = 10
  /\ mapOut.changePct = 11110
  /\ mapOut.direction = "up"

\* A task of slot r's primary round moves while its handler no longer
\* awaits the round: the deadline has fired and the task was abandoned.
LateStep(r) ==
  /\ pc[r] # "race"
  /\ pc'[r] = pc[r]
  /\ accepted' = accepted
  /\ job'[r] # job[r]

\* The prices the handler of slot r may hold for id when it responds: what
\* it merged before or at the end of the race, what fetchFinnhub returned,
\* and the remembered index price.
Collected(r, id) ==
  (IF pc[r] = "finnhub"
     THEN {Get(merged[r], id).price, Get(fh[r].out, id).price}
     ELSE IF \E j \in Range(JobNames) : job[r][j].st = "pending" THEN {}
     ELSE { Get(job[r][j].data, id).price : j \in Range(JobNames) })
  \cup (IF id = "^GSPC" /\ id \in DOMAIN lastGoodById
          THEN {lastGoodById[id].price} ELSE {})

\* C15: a task that settles after the deadline has fired changes nothing
\* but itself (no response, no merged result, not the snapshot, not the
\* memory), and a live response carries only prices its handler collected
\* before the deadline, from fetchFinnhub, or from the memory.
C15_LateResultsAbandoned ==
  /\ [][\A r \in Slots :
          LateStep(r) =>
            UNCHANGED <<cache, response, merged, errors, fh, pc, now>>]_vars
  /\ [][\A r \in Slots :
          (Responds(r) /\ response'[r].body.meta.servedFrom = "") =>
            \A i \in 1..Len(response'[r].body.items) :
              response'[r].body.items[i].price # null
                => response'[r].body.items[i].price
                     \in Collected(r, response'[r].body.items[i].id)]_vars

\* The Twelve Data task settled with a price for NVDA after the deadline
\* had fired and the request had been answered without one.
C15_Witness ==
  /\ pc[1] = "done"
  /\ request[1].items = <<"NVDA", "", "NVDA">>
  /\ job[1]["twelvedata"].st = "settled"
  /\ Get(job[1]["twelvedata"].data, "NVDA").price = 100
  /\ IsPayload(1)
  /\ Body(1).meta.servedFrom = ""
  /\ Body(1).items[1].price = null
  /\ Body(1).meta.errors[1] = <<"global-deadline">>
  /\ lastGoodSnapshot = NoSnapshot

\* C16: a request that ends without a priced item while a snapshot is
\* cached is answered with the snapshot's items and the snapshot's own
\* meta.errors, stamped servedFrom "snapshot" and snapshotAt = lastGoodAt.
C16_SnapshotKeepsItsErrors ==
  [][\A r \in Slots :
       (Responds(r) /\ lastGoodSnapshot # NoSnapshot
          /\ \A i \in 1..Len(OwnItems(r)) : OwnItems(r)[i].price = null)
         => /\ response'[r].status = 200
            /\ response'[r].body.ok
            /\ response'[r].body.ts = lastGoodSnapshot.ts
            /\ response'[r].body.items = lastGoodSnapshot.items
            /\ response'[r].body.meta.errors = lastGoodSnapshot.meta.errors
            /\ response'[r].body.meta.servedFrom = "snapshot"
            /\ response'[r].body.meta.snapshotAt = lastGoodAt]_vars

\* A request for NVDA that ended with an error and no price was answered
\* with a snapshot that has an empty error list.
C16_Witness ==
  /\ pc[1] = "done"
  /\ request[1].items = <<"NVDA", "", "NVDA">>
  /\ ~FH_TOKEN
  /\ IsPayload(1)
  /\ Body(1).meta.servedFrom = "snapshot"
  /\ Body(1).meta.snapshotAt = lastGoodAt
  /\ Body(1).meta.errors = << >>
  /\ Body(1).items = lastGoodSnapshot.items

\* C17: fetchFinnhub is started only when the handler leaves the race, and
\* then every task of the primary round has settled or the deadline has
\* fired (global-deadline is in the error list); while the race is awaited
\* no Finnhub call is in flight.
C17_FallbackAfterPrimaryRound ==
  /\ [](\A r \in Slots : fh[r].pending # {} => pc[r] = "finnhub")
  /\ [][\A r \in Slots :
          (pc[r] # "finnhub" /\ pc'[r] = "finnhub") =>
            /\ pc[r] = "race"
            /\ fh[r].pending = {}
            /\ \/ \A j \in Range(JobNames) : job[r][j].st # "pending"
               \/ \E k \in 1..Len(errors'[r]) : errors'[r][k] = <<"global-deadline">>]_vars

\* fetchFinnhub is in flight after the deadline fired with the Twelve Data
\* call still pending.
C17_Witness ==
  /\ pc[1] = "finnhub"
  /\ fh[1].pending = {"NVDA"}
  /\ job[1]["twelvedata"].st = "pending"
  /\ errors[1] = << <<"global-deadline">> >>

\* C18: in the item mapItem returns, direction is "up" exactly when the
\* returned changePct is above 0, "down" exactly when it is below 0, and
\* "flat" exactly when it is 0 or null.
C18_DirectionMatchesChangePct ==
  Mapped =>
    /\ mapOut.direction = "up" <=> (mapOut.changePct # null /\ mapOut.changePct > 0)
    /\ mapOut.direction = "down" <=> (mapOut.changePct # null /\ mapOut.changePct < 0)
    /\ mapOut.direction = "flat" <=> (mapOut.changePct = null \/ mapOut.changePct = 0)

\* The Stooq task of slot r.
Stooq(r) == job[r]["stooq"]
StooqNext(r) == job'[r]["stooq"]

\* C19: the Stooq task has one attempt in flight at a time, in the order
\* hosts outer, symbols inner; an attempt that parses to a finite close
\* settles the task with that price and no error; a failed attempt is
\* followed by the next pair, and only the failure of the last pair
\* settles the task with no data and the single token
\* stooq-all-attempts-failed.
C19_StooqSequential ==
  /\ [](\A r \in Slots :
          Stooq(r).st = "pending" =>
            /\ Stooq(r).call \in 1..(Len(hosts) * Len(syms))
            /\ Stooq(r).data = EmptyMap
            /\ Stooq(r).errs = << >>)
  /\ [][\A r \in Slots :
          (Stooq(r).st = "none" /\ StooqNext(r).st # "none") =>
            (StooqNext(r).st = "pending" /\ StooqPair(StooqNext(r).call) = <<hosts[1], syms[1]>>)]_vars
  /\ [][\A r \in Slots :
          (Stooq(r).st = "pending" /\ StooqNext(r) # Stooq(r) /\ accepted' = accepted) =>
            \/ /\ StooqNext(r).st = "settled"
               /\ StooqNext(r).errs = << >>
               /\ DOMAIN StooqNext(r).data = {"^GSPC"}
               /\ StooqNext(r).data["^GSPC"].price \in IndexPrices
               /\ StooqNext(r).data["^GSPC"].source = "stooq"
            \/ /\ StooqNext(r).st = "pending"
               /\ StooqNext(r).call = Stooq(r).call + 1
               /\ \/ /\ StooqPair(StooqNext(r).call)[1] = StooqPair(Stooq(r).call)[1]
                     /\ StooqPair(Stooq(r).call)[2] # syms[Len(syms)]
                  \/ /\ StooqPair(Stooq(r).call) = <<hosts[1], syms[Len(syms)]>>
                     /\ StooqPair(StooqNext(r).call) = <<hosts[2], syms[1]>>
            \/ /\ StooqNext(r).st = "settled"
               /\ Stooq(r).call = Len(hosts) * Len(syms)
               /\ StooqPair(Stooq(r).call) = <<hosts[Len(hosts)], syms[Len(syms)]>>
               /\ StooqNext(r).data = EmptyMap
               /\ StooqNext(r).errs = <<"stooq-all-attempts-failed">>]_vars

\* Every pair failed and the task settled with the failure token while the
\* handler was still awaiting it.
C19_Witness ==
  /\ pc[1] = "race"
  /\ Stooq(1).st = "settled"
  /\ Stooq(1).data = EmptyMap
  /\ Stooq(1).errs = <<"stooq-all-attempts-failed">>

\* C20: every task the handler awaits in its race settles, at worst (each
\* of its sequential calls aborted by its timer), no later than the global
\* deadline.
C20_WorstCaseWithinDeadline ==
  \A r \in Slots : \A j \in Range(JobNames) :
    (pc[r] = "race" /\ job[r][j].st = "pending")
      => WorstCaseMs(j) <= GLOBAL_DEADLINE_MS

\* The priced items of the cached snapshot.
SnapshotPriced ==
  { lastGoodSnapshot.items[i] : i \in
      { k \in 1..Len(lastGoodSnapshot.items) :
          lastGoodSnapshot.items[k].price # null } }

\* C21: under any interleaving of requests, every item of the cached
\* snapshot that has a price is in the per-identifier memory with that same
\* price.
C21_SnapshotAgreesWithMemory ==
  \A it \in SnapshotPriced :
    /\ it.id \in DOMAIN lastGoodById
    /\ lastGoodById[it.id].price = it.price

\* C21 witness: two handlers have each cached a live payload quoting the
\* index at a different price, and the snapshot is the later of the two.
C21_Witness ==
  /\ lastGoodAt >= 2
  /\ \E it \in SnapshotPriced : it.id = "^GSPC"
  /\ \E r, q \in Slots :
       /\ r # q
       /\ pc[r] = "done" /\ pc[q] = "done"
       /\ IsPayload(r) /\ IsPayload(q)
       /\ Body(q) = lastGoodSnapshot
       /\ Len(Body(r).items) = 1
       /\ Body(r).items[1].id = "^GSPC"
       /\ Body(r).items[1].price # null
       /\ Body(r).items[1].price # Body(q).items[1].price

\* A step that writes the per-identifier memory.
MemoryWritten == lastGoodById' # lastGoodById

\* A step in which slot r replaces the cached snapshot by the payload it
\* sends.
SnapshotReplacedBy(r) ==
  /\ lastGoodSnapshot' # lastGoodSnapshot
  /\ pc[r] # "done"
  /\ pc'[r] = "done"
  /\ lastGoodSnapshot' = response'[r].body
  /\ lastGoodAt' = now'

\* C22: a request writes the per-identifier memory exactly in the step in
\* which it replaces the cached snapshot; so the memory is empty while no
\* snapshot is cached, and no entry of the memory has a null price.
C22_MemoryWrittenWithSnapshot ==
  /\ [][ /\ MemoryWritten <=> lastGoodSnapshot' # lastGoodSnapshot
         /\ MemoryWritten => \E r \in Slots : SnapshotReplacedBy(r) ]_vars
  /\ [](lastGoodById # << >> => lastGoodSnapshot # NoSnapshot)
  /\ [](\A id \in DOMAIN lastGoodById : lastGoodById[id].price # null)

\* C22 witness: a request has just cached its payload and written its priced
\* item to the memory in that step, and the memory still holds an older
\* entry, written together with a snapshot that has since been replaced.
C22_Witness ==
  /\ pc[1] = "done"
  /\ Body(1) = lastGoodSnapshot
  /\ \E id \in DOMAIN lastGoodById :
       /\ lastGoodById[id].ts = lastGoodAt
       /\ \E it \in SnapshotPriced : it.id = id
  /\ \E id \in DOMAIN lastGoodById :
       /\ lastGoodById[id].ts < lastGoodAt
       /\ \A it \in SnapshotPriced : it.id # id

\* Slot r sends its response in this step and takes its index item from the
\* per-identifier memory.
Backfills(r) ==
  /\ Responds(r)
  /\ UsesLastGood(IdsOf(request[r].items), Resolved(r))

\* C23: a request whose index item is backfilled from the per-identifier
\* memory is answered live (not from the snapshot, stale false) and its
\* payload becomes the cached snapshot, whether or not an adapter resolved
\* anything; the price remembered for the index stays what it was.
C23_BackfillServedLive ==
  [][\A r \in Slots :
       Backfills(r)
         => /\ response'[r].status = 200
            /\ response'[r].body.meta.servedFrom = ""
            /\ response'[r].body.meta.stale = FALSE
            /\ response'[r].body.ts = now'
            /\ lastGoodSnapshot' = response'[r].body
            /\ lastGoodSnapshot' # lastGoodSnapshot
            /\ lastGoodAt' = now'
            /\ "^GSPC" \in DOMAIN lastGoodById'
            /\ lastGoodById'["^GSPC"].price = lastGoodById["^GSPC"].price]_vars

\* C23 witness: a request for the index alone, whose adapter resolved
\* nothing, was answered with the remembered price and its payload is the
\* cached snapshot.
C23_Witness ==
  /\ pc[1] = "done"
  /\ request[1].items = <<"%5EGSPC">>
  /\ IsPayload(1)
  /\ Body(1) = lastGoodSnapshot
  /\ Body(1).meta.stale = FALSE
  /\ Body(1).items[1].source = "snapshot-id"
  /\ Body(1).items[1].price = lastGoodById["^GSPC"].price
  /\ \E k \in 1..Len(Body(1).meta.errors) :
       Body(1).meta.errors[k] = <<"spx-used-last-good">>

\* Slot r sends, in this step, a response taken from the cached snapshot:
\* on the path of a request without any priced item or on the fault path.
ServedFromSnapshot(r) ==
  /\ pc'[r] = "done"
  /\ pc[r] # "done" \/ accepted' # accepted
  /\ response'[r].status = 200
  /\ "meta" \in DOMAIN response'[r].body
  /\ response'[r].body.meta.servedFrom \in {"snapshot", "snapshot-on-error"}

\* C24: a response served from the snapshot, for a request without any
\* priced item or after a fault, leaves the cache as it was: the cached
\* snapshot with its items and its meta (also when the debug flag adds the
\* sources to the response), lastGoodAt and the per-identifier memory.
C24_ServingLeavesCache ==
  [][\A r \in Slots :
       ServedFromSnapshot(r)
         => /\ lastGoodSnapshot' = lastGoodSnapshot
            /\ lastGoodAt' = lastGoodAt
            /\ lastGoodById' = lastGoodById]_vars

\* C24 witness: a debug request without any priced item was answered from
\* the snapshot with the sources added, and the cached snapshot carries
\* neither the sources nor the stamp.
C24_Witness ==
  /\ pc[1] = "done"
  /\ request[1].debug
  /\ IsPayload(1)
  /\ Body(1).meta.servedFrom = "snapshot"
  /\ Body(1).meta.sources # << >>
  /\ Body(1).items = lastGoodSnapshot.items
  /\ lastGoodSnapshot.meta.sources = << >>
  /\ lastGoodSnapshot.meta.servedFrom = ""
  /\ lastGoodSnapshot.meta.snapshotAt = null
  /\ lastGoodById # << >>

====
